---- MODULE Spec2Model ----
(***************************************************************************)
(* Verification model of the loan amortization engine                      *)
(* (src/src/financial_algorithms/scripts/loan_emi_calculator.py) and of    *)
(* the sequence similarity engine (src/src/string_algorithms).             *)
(*                                                                         *)
(* simulate_loan is modelled as a state machine: one call, whose arguments *)
(* are chosen in Init, runs through the argument handling, the monthly     *)
(* loop (one step per iteration) and the final report.                     *)
(*                                                                         *)
(* Python floats are modelled as binary floating-point numbers with a      *)
(* Prec-bit significand, round-to-nearest-even and an unbounded exponent:  *)
(* a value is <<m, e>> and stands for m * 2^e, kept canonical (m odd, or   *)
(* <<0, 0>>), so that equality of values is equality of tuples.            *)
(***************************************************************************)
EXTENDS Integers, Sequences, FiniteSets, TLC

(* ------------------------------- bounds ------------------------------- *)
\* significand width of the modelled floats (Python's float has 53 bits)
Prec == 10
\* loan_amount ranges over -1 .. MaxLoan
MaxLoan == 4
\* a supplied emi ranges over 1 .. MaxEmi
MaxEmi == 4
\* a supplied target_months ranges over 0 .. MaxTarget
MaxTarget == 3
\* a lump sum is scheduled in a month of 1 .. MaxLumpMonth
MaxLumpMonth == 2
\* a lump sum amount is -1 or ranges over 1 .. MaxLump
MaxLump == 2

(* --------------------------- program constants ------------------------ *)
MAX_MONTHS == 1200

(* ------------------------ floating-point arithmetic -------------------- *)
Abs(x) == IF x < 0 THEN -x ELSE x

Sgn(x) == IF x < 0 THEN -1 ELSE IF x > 0 THEN 1 ELSE 0

Min(a, b) == IF a < b THEN a ELSE b

Max(a, b) == IF a > b THEN a ELSE b

RECURSIVE BitLen(_)
\* number of bits of the natural number n
BitLen(n) == IF n = 0 THEN 0 ELSE 1 + BitLen(n \div 2)

RECURSIVE Canon(_, _)
\* the canonical pair of the value m * 2^e
Canon(m, e) ==
    IF m = 0 THEN <<0, 0>>
    ELSE IF m % 2 = 0 THEN Canon(m \div 2, e + 1)
    ELSE <<m, e>>

\* the exact value m * 2^e rounded to Prec significant bits, ties to even
RoundP(m, e) ==
    LET a == Abs(m)
        s == BitLen(a) - Prec
    IN  IF s <= 0 THEN Canon(m, e)
        ELSE LET q  == a \div (2 ^ s)
                 r  == a % (2 ^ s)
                 h  == 2 ^ (s - 1)
                 up == r > h \/ (r = h /\ q % 2 = 1)
             IN  Canon(Sgn(m) * (IF up THEN q + 1 ELSE q), e + s)

\* position of the leading bit of a non-zero float: |x| < 2^Top(x)
Top(x) == BitLen(Abs(x[1])) + x[2]

FZero == <<0, 0>>

\* int -> float conversion
FromInt(i) == RoundP(i, 0)

FNeg(x) == <<-x[1], x[2]>>

\* x + y, correctly rounded.  An operand more than Prec + 2 binades below
\* the other is below a quarter of the other's last place and is absorbed.
FAdd(x, y) ==
    IF x[1] = 0 THEN y
    ELSE IF y[1] = 0 THEN x
    ELSE IF Top(x) - Top(y) > Prec + 2 THEN x
    ELSE IF Top(y) - Top(x) > Prec + 2 THEN y
    ELSE LET e == Min(x[2], y[2])
         IN  RoundP(x[1] * (2 ^ (x[2] - e)) + y[1] * (2 ^ (y[2] - e)), e)

FSub(x, y) == FAdd(x, FNeg(y))

FMul(x, y) == RoundP(x[1] * y[1], x[2] + y[2])

\* x / y for y # 0, correctly rounded: a quotient of at least Prec + 2 bits
\* followed by a sticky bit for the remainder
FDiv(x, y) ==
    IF x[1] = 0 THEN FZero
    ELSE LET a == Abs(x[1])
             b == Abs(y[1])
             k == Max(0, Prec + 2 + BitLen(b) - BitLen(a))
             n == a * (2 ^ k)
             q == n \div b
             r == n % b
         IN  RoundP(Sgn(x[1]) * Sgn(y[1]) * (2 * q + (IF r > 0 THEN 1 ELSE 0)),
                    x[2] - y[2] - k - 1)

\* x ** n for an int n >= 0, correctly rounded
FPow(x, n) == RoundP(x[1] ^ n, x[2] * n)

\* comparisons are exact: rounding never changes the sign of a difference
FLt(x, y) == FSub(x, y)[1] < 0

FGt(x, y) == FLt(y, x)

FLe(x, y) == ~FLt(y, x)

\* round(x): the nearest int, ties to even (Python 3 round of a float)
RoundHalfEven(x) ==
    IF x[1] = 0 \/ Top(x) < 0 THEN 0
    ELSE IF x[2] >= 0 THEN x[1] * (2 ^ x[2])
    ELSE LET a  == Abs(x[1])
             d  == 2 ^ (-x[2])
             q  == a \div d
             r  == a % d
             up == 2 * r > d \/ (2 * r = d /\ q % 2 = 1)
         IN  Sgn(x[1]) * (IF up THEN q + 1 ELSE q)


\* INR(x): the amount rounded to a whole number of rupees.  The rendering of
\* that int as a string with a currency sign and grouped thousands is
\* one-to-one and is modelled by the int itself.
INR(x) == RoundHalfEven(x)

(* ------------------------------ the call ------------------------------ *)
\* An optional argument is <<>> (None) or <<v>>.
None == <<>>

Some(v) == <<v>>

Loans == -1 .. MaxLoan

\* annual_interest_rate in percent: monthly rates 0, 0.01 (inexact) and 0.5
Rates == {0, 12, 600}

\* the rates used when the EMI is back-solved ((1 + r) ** n stays small)
BackSolveRates == {0, 600}

EmiArgs == {None} \cup {Some(v) : v \in 1 .. MaxEmi}

TargetArgs == {None} \cup {Some(n) : n \in 0 .. MaxTarget}

\* the amounts of the lump sums are Python numbers, held as floats
LumpAmounts == {FromInt(a) : a \in {-1} \cup (1 .. MaxLump)}

\* lump_sums: None, a dict (a function from months to amounts) or a list
\* of (month, amount) pairs
LumpDicts ==
    {[kind |-> "dict", items |-> <<>>]} \cup
    {[kind |-> "dict", items |-> <<<<m, a>>>>] :
        m \in 1 .. MaxLumpMonth, a \in LumpAmounts}

LumpLists ==
    {[kind |-> "list",
      items |-> <<<<1, FromInt(1)>>, <<1, FromInt(MaxLump)>>>>],
     [kind |-> "list",
      items |-> <<<<MaxLumpMonth, FromInt(1)>>, <<1, FromInt(1)>>>>]}

LumpArgs == {[kind |-> "none", items |-> <<>>]} \cup LumpDicts \cup LumpLists

\* calls with a lump sum that is not a whole amount: an interest-free loan
\* of 800, 801 or 803 with a lump sum of 288.5 or 289.5 in month 1 and an
\* EMI of 1000, which is more than what is owed
FractionalLumpCalls ==
    {[loan_amount |-> P, annual_interest_rate |-> 0, emi |-> Some(1000),
      lump_sums |-> [kind |-> "dict", items |-> <<<<1, <<halves, -1>>>>>>],
      target_months |-> None] : P \in {800, 801, 803}, halves \in {577, 579}}

Calls ==
    {c \in [loan_amount : Loans, annual_interest_rate : Rates, emi : EmiArgs,
            lump_sums : LumpArgs, target_months : TargetArgs] :
        /\ (c.emi = None /\ c.target_months # None)
              => c.annual_interest_rate \in BackSolveRates
        \* target_months is ignored when emi is supplied: one value suffices
        /\ c.emi # None => c.target_months \in {None, Some(1)}}
    \cup FractionalLumpCalls

(* ------------------------------- state -------------------------------- *)
VARIABLES
    call,                   \* the arguments of the call
    pc,                     \* "call", "loop", "report", "done" or "raised"
    monthly_interest_rate,
    lump_sums,              \* the normalised dict: a set of <<month, amount>>
    emi,                    \* None until supplied or back-solved
    balance,
    month,
    total_interest_paid,
    schedule,               \* the rows appended so far
    ledger,                 \* history: the unformatted amounts of each row
    raised,                 \* None or the exception that left the call
    returned                \* None or <<df>>

vars == <<call, pc, monthly_interest_rate, lump_sums, emi, balance, month,
          total_interest_paid, schedule, ledger, raised, returned>>

\* The state of one call of the similarity engine
\* (src/src/string_algorithms); it is idle while simulate_loan runs, and
\* simulate_loan is idle (pc = "idle") while the similarity engine runs.
VARIABLES
    sim_call,               \* the entry point and the arguments of the call
    sim_pc,                 \* "idle", "call" or "done"
    results                 \* None or <<the value the entry point returned>>

simvars == <<sim_call, sim_pc, results>>

\* The state of one request to the /simulate endpoint of the loan
\* calculator (src/src/financial_algorithms/demos/app.py); the handler runs
\* simulate_loan on the variables above.
VARIABLES
    request,                \* None or <<the JSON body of the request>>
    response                \* None or <<what the handler answered>>

httpvars == <<request, response>>

\* The state of the logging module that configure_logger works on
\* (src/src/utils/logger_config.py).
VARIABLES
    root_handlers,          \* the handlers of the root logger, in order
    app_handlers,           \* the handlers of the logger 'app_logger'
    app_propagate,          \* app_logger.propagate
    app_level,              \* app_logger.level: "NOTSET" or "INFO"
    handlers_created,       \* how many handlers have been created so far
    configure_calls,        \* how many calls of configure_logger returned
    emitted                 \* per message logged: how many handlers wrote it

logvars == <<root_handlers, app_handlers, app_propagate, app_level,
             handlers_created, configure_calls, emitted>>

\* no request is being served
HttpIdle == request = None /\ response = None

\* the logging module as the interpreter leaves it after import logging
LoggingUntouched ==
    /\ root_handlers = <<>>
    /\ app_handlers = <<>>
    /\ app_propagate = TRUE
    /\ app_level = "NOTSET"
    /\ handlers_created = 0
    /\ configure_calls = 0
    /\ emitted = <<>>

allvars == <<vars, simvars, httpvars, logvars>>

(* ------------------------------ helpers ------------------------------- *)
RECURSIVE DictOf(_)
\* dict(items): a later pair replaces an earlier pair of the same month
DictOf(items) ==
    IF items = <<>> THEN {}
    ELSE LET last == items[Len(items)]
             rest == DictOf(SubSeq(items, 1, Len(items) - 1))
         IN  {p \in rest : p[1] # last[1]} \cup {last}

\* mutant: the lump sum of a month is applied one month late
LumpGet_MonthLate(d, m) ==
    IF \E p \in d : p[1] = m - 1 THEN (CHOOSE p \in d : p[1] = m - 1)[2]
    ELSE FZero

\* lump_sums.get(m, 0)
LumpGet(d, m) ==
    IF \E p \in d : p[1] = m THEN (CHOOSE p \in d : p[1] = m)[2] ELSE FZero

\* calculate_emi raises ZeroDivisionError
calculate_emi_raises(P, r, n) ==
    IF r = FZero THEN n = 0
    ELSE FSub(FPow(FAdd(FromInt(1), r), n), FromInt(1)) = FZero

\* mutant: the zero-rate branch forgets to divide by the number of months
calculate_emi_ZeroRateWhole(P, r, n) ==
    IF r = FZero THEN P
    ELSE LET x == FPow(FAdd(FromInt(1), r), n)
         IN  FDiv(FMul(FMul(P, r), x), FSub(x, FromInt(1)))

\* mutant: the principal is spread evenly whatever the rate
calculate_emi_IgnoresRate(P, r, n) == FDiv(P, FromInt(n))

calculate_emi(P, r, n) ==
    IF r = FZero THEN FDiv(P, FromInt(n))
    ELSE LET x == FPow(FAdd(FromInt(1), r), n)
         IN  FDiv(FMul(FMul(P, r), x), FSub(x, FromInt(1)))

\* mutant: the final month is not clamped to the balance
Payment_NoClamp(bal, e, lump, interest) ==
    [principal_payment |-> FSub(e, interest), lump_sum |-> lump, emi |-> e]

\* mutant: the principal is taken as interest - emi
Payment_InterestMinusEmi(bal, e, lump, interest) ==
    [principal_payment |-> FSub(interest, e), lump_sum |-> lump, emi |-> e]

\* the payment of one month: principal, lump sum and EMI after the clamp
Payment(bal, e, lump, interest) ==
    LET principal_payment == FSub(e, interest)
        total_payment     == FAdd(principal_payment, lump)
    IN  IF FGt(total_payment, bal)
        THEN LET reduced == FSub(bal, lump)
                 pp      == IF FLt(reduced, FZero) THEN FZero ELSE reduced
                 ls      == IF FLt(reduced, FZero) THEN bal ELSE lump
             IN  [principal_payment |-> pp, lump_sum |-> ls,
                  emi |-> FAdd(interest, pp)]
        ELSE [principal_payment |-> principal_payment, lump_sum |-> lump,
              emi |-> e]

\* mutant: 'Principal Paid' leaves out the lump sum
Row_PrincipalWithoutLump(m, e, lump, interest, pp, bal) ==
    [Month            |-> m,
     EMI              |-> INR(e),
     LumpSum          |-> IF lump # FZero THEN Some(INR(lump)) ELSE None,
     InterestPaid     |-> INR(interest),
     PrincipalPaid    |-> INR(pp),
     RemainingBalance |-> INR(IF FGt(bal, FZero) THEN bal ELSE FZero)]

\* mutant: the month is recorded before it is incremented
Row_MonthBeforeIncrement(m, e, lump, interest, pp, bal) ==
    [Month            |-> m - 1,
     EMI              |-> INR(e),
     LumpSum          |-> IF lump # FZero THEN Some(INR(lump)) ELSE None,
     InterestPaid     |-> INR(interest),
     PrincipalPaid    |-> INR(FAdd(pp, lump)),
     RemainingBalance |-> INR(IF FGt(bal, FZero) THEN bal ELSE FZero)]

\* the row appended to the schedule
Row(m, e, lump, interest, pp, bal) ==
    [Month            |-> m,
     EMI              |-> INR(e),
     LumpSum          |-> IF lump # FZero THEN Some(INR(lump)) ELSE None,
     InterestPaid     |-> INR(interest),
     PrincipalPaid    |-> INR(FAdd(pp, lump)),
     RemainingBalance |-> INR(IF FGt(bal, FZero) THEN bal ELSE FZero)]

MissingEmi == <<"ValueError", "You must specify either emi or target_months.">>

EmiTooLow ==
    <<"ValueError",
      "EMI is too low to cover even the interest. Loan will never be repaid.">>

EmptySchedule ==
    <<"ValueError",
      "Loan amount must be greater than zero and result in a valid schedule.">>

ZeroDivision == <<"ZeroDivisionError", "division by zero">>

\* monthly_interest_rate = annual_interest_rate / 12 / 100
MonthlyRate(annual) == FDiv(FDiv(FromInt(annual), FromInt(12)), FromInt(100))

\* lump_sums or {}, and dict(lump_sums) for a list
NormaliseLumps(arg) == DictOf(arg.items)

\* mutant: a call without emi and target_months goes on with an EMI of 0
ResolveEmi_DefaultsToZero(e, target, P, r) ==
    IF e = None /\ target # None
    THEN IF calculate_emi_raises(P, r, target[1])
         THEN [emi |-> None, raised |-> ZeroDivision]
         ELSE [emi |-> calculate_emi(P, r, target[1]), raised |-> None]
    ELSE IF e = None
         THEN [emi |-> FZero, raised |-> None]
         ELSE [emi |-> FromInt(e[1]), raised |-> None]

\* the EMI of the call: supplied, back-solved from target_months, or an error
ResolveEmi(e, target, P, r) ==
    IF e = None /\ target # None
    THEN IF calculate_emi_raises(P, r, target[1])
         THEN [emi |-> None, raised |-> ZeroDivision]
         ELSE [emi |-> calculate_emi(P, r, target[1]), raised |-> None]
    ELSE IF e = None
         THEN [emi |-> None, raised |-> MissingEmi]
         ELSE [emi |-> FromInt(e[1]), raised |-> None]

\* mutant: an EMI equal to the interest is rejected too
InterestReachesEmi(e, interest) == FLe(e, interest)

\* mutant: the check is missing
InterestNeverExceedsEmi(e, interest) == FALSE

\* the check of the loop: the EMI does not cover the month's interest
InterestExceedsEmi(e, interest) == FLt(e, interest)

(* ------------------------------ actions ------------------------------- *)
Init ==
    /\ call \in Calls
    /\ pc = "call"
    /\ monthly_interest_rate = FZero
    /\ lump_sums = {}
    /\ emi = None
    /\ balance = FZero
    /\ month = 0
    /\ total_interest_paid = FZero
    /\ schedule = <<>>
    /\ ledger = <<>>
    /\ raised = None
    /\ returned = None
    /\ sim_call = None
    /\ sim_pc = "idle"
    /\ results = None
    /\ HttpIdle
    /\ LoggingUntouched

\* the set-up of the call and the choice of the EMI
Enter ==
    /\ pc = "call"
    /\ LET r   == MonthlyRate(call.annual_interest_rate)
           P   == FromInt(call.loan_amount)
           res == ResolveEmi(call.emi, call.target_months, P, r)
       IN  /\ monthly_interest_rate' = r
           /\ balance' = P
           /\ lump_sums' = NormaliseLumps(call.lump_sums)
           /\ emi' = res.emi
           /\ raised' = res.raised
           /\ pc' = IF res.raised = None THEN "loop" ELSE "raised"
    /\ UNCHANGED <<call, month, total_interest_paid, schedule, ledger, returned>>
    /\ UNCHANGED <<simvars, httpvars, logvars>>

\* one iteration of the monthly loop
MonthStep ==
    /\ pc = "loop"
    /\ FGt(balance, FZero) /\ month < MAX_MONTHS
    /\ month' = month + 1
    /\ LET interest == FMul(balance, monthly_interest_rate)
       IN  IF InterestExceedsEmi(emi, interest)
           THEN /\ raised' = EmiTooLow
                /\ pc' = "raised"
                /\ UNCHANGED <<emi, balance, total_interest_paid, schedule, ledger>>
           ELSE LET pay == Payment(balance, emi, LumpGet(lump_sums, month'),
                                   interest)
                    bal == FSub(balance, FAdd(pay.principal_payment, pay.lump_sum))
                IN  /\ emi' = pay.emi
                    /\ balance' = bal
                    /\ total_interest_paid' = FAdd(total_interest_paid, interest)
                    /\ schedule' = Append(schedule,
                                      Row(month', pay.emi, pay.lump_sum, interest,
                                          pay.principal_payment, bal))
                    /\ ledger' = Append(ledger,
                                    [emi |-> pay.emi, lump_sum |-> pay.lump_sum,
                                     interest |-> interest,
                                     principal_payment |-> pay.principal_payment,
                                     balance |-> bal])
                    /\ pc' = IF FLe(bal, FZero) THEN "report" ELSE "loop"
                    /\ UNCHANGED raised
    /\ UNCHANGED <<call, monthly_interest_rate, lump_sums, returned>>
    /\ UNCHANGED <<simvars, httpvars, logvars>>

\* the loop condition fails: nothing owed at the start, or MAX_MONTHS reached
ExitLoop ==
    /\ pc = "loop"
    /\ ~(FGt(balance, FZero) /\ month < MAX_MONTHS)
    /\ pc' = "report"
    /\ UNCHANGED <<call, monthly_interest_rate, lump_sums, emi, balance, month,
                   total_interest_paid, schedule, ledger, raised, returned>>
    /\ UNCHANGED <<simvars, httpvars, logvars>>

\* the data frame is built, summarised and returned
Report ==
    /\ pc = "report"
    /\ IF schedule = <<>>
       THEN /\ raised' = EmptySchedule
            /\ returned' = None
            /\ pc' = "raised"
       ELSE /\ raised' = None
            /\ returned' = Some(schedule)
            /\ pc' = "done"
    /\ UNCHANGED <<call, monthly_interest_rate, lump_sums, emi, balance, month,
                   total_interest_paid, schedule, ledger>>
    /\ UNCHANGED <<simvars, httpvars, logvars>>

Next == Enter \/ MonthStep \/ ExitLoop \/ Report

Spec == Init /\ [][Next]_allvars

(* ---------------------- vocabulary of the claims ----------------------- *)
\* the schedule the call returned
Df == returned[1]

Last(s) == s[Len(s)]

\* no lump sum of the call is negative
NonNegativeLumps ==
    \A p \in NormaliseLumps(call.lump_sums) : FLe(FZero, p[2])

\* the first month's interest, as the loop computes it
FirstInterest ==
    FMul(FromInt(call.loan_amount), MonthlyRate(call.annual_interest_rate))

\* the call supplies a positive EMI that covers the first month's interest
\* of a positive loan, and no negative lump sum
CoveringEmiCall ==
    /\ call.loan_amount > 0
    /\ call.annual_interest_rate >= 0
    /\ call.emi # None
    /\ call.emi[1] > 0
    /\ FLe(FirstInterest, FromInt(call.emi[1]))
    /\ NonNegativeLumps

C2_CeilingAborts ==
    /\ (month = MAX_MONTHS /\ FGt(balance, FZero) /\ pc \in {"report", "done"})
          => FALSE
    /\ pc = "done" => ~(Last(Df).RemainingBalance > 0)

(* -------------------------------- C3 ---------------------------------- *)
\* the remaining balance of the returned schedule before month m
ReportedBefore(m) ==
    IF m = 1 THEN call.loan_amount ELSE Df[m - 1].RemainingBalance

\* the unformatted balance the loop held before month m
BalanceBefore(m) ==
    IF m = 1 THEN FromInt(call.loan_amount) ELSE ledger[m - 1].balance

XAdd(x, y) ==
    LET e == Min(x[2], y[2])
    IN  Canon(x[1] * (2 ^ (x[2] - e)) + y[1] * (2 ^ (y[2] - e)), e)

RECURSIVE PrincipalSum(_, _)
\* exact sum, over the first k months, of the EMI principal and the lump sum
PrincipalSum(led, k) ==
    IF k = 0 THEN FZero
    ELSE XAdd(PrincipalSum(led, k - 1),
              XAdd(led[k].principal_payment, led[k].lump_sum))

\* what the principal paid misses loan_amount by, exactly
PrincipalError ==
    XAdd(PrincipalSum(ledger, Len(ledger)), FNeg(FromInt(call.loan_amount)))

\* |x| rounded up to a whole number
CeilAbs(x) ==
    IF x[2] >= 0 THEN Abs(x[1]) * (2 ^ x[2])
    ELSE (Abs(x[1]) + (2 ^ (-x[2])) - 1) \div (2 ^ (-x[2]))

\* the largest balance the call can reach: the loan and the negative lumps
RECURSIVE NegativeLumpTotal(_)
NegativeLumpTotal(d) ==
    IF d = {} THEN 0
    ELSE LET p == CHOOSE q \in d : TRUE
         IN  (IF FLt(p[2], FZero) THEN CeilAbs(p[2]) ELSE 0)
                 + NegativeLumpTotal(d \ {p})

\* |x| <= n * 2^(-Prec), exactly
WithinUlps(x, n) ==
    IF x[2] + Prec >= 0 THEN Abs(x[1]) * (2 ^ (x[2] + Prec)) <= n
    ELSE Abs(x[1]) <= n * (2 ^ (-(x[2] + Prec)))

\* C4 as stated: whenever the returned schedule ends with remaining balance
\* 0, the EMI principal portions and the applied lump sums add up to
\* loan_amount.
C4_PrincipalAddsUp ==
    (pc = "done" /\ Last(Df).RemainingBalance = 0) => PrincipalError = FZero

\* C4 amended: whenever a schedule is returned after the balance has reached
\* 0, the EMI principal portions and the applied lump sums add up to
\* loan_amount up to floating-point rounding: the difference is at most
\* 2 * months * (largest balance) * 2^(-Prec).
C4_PrincipalAddsUpWithinRounding ==
    (pc = "done" /\ FLe(balance, FZero)) =>
        WithinUlps(PrincipalError,
                   2 * Len(ledger)
                     * (call.loan_amount + NegativeLumpTotal(lump_sums)))

\* a loan paid off over several months with a lump sum, the final month
\* clamped, whose principal adds up to loan_amount only approximately
C4_Witness ==
    /\ pc = "done"
    /\ FLe(balance, FZero)
    /\ Len(Df) >= 3
    /\ \E m \in 1 .. Len(Df) : Df[m].LumpSum # None
    /\ PrincipalError # FZero

(* -------------------------------- C5 ---------------------------------- *)
\* C5: in any month in which the EMI is lower than the month's interest the
\* call fails with the "EMI is too low" error and returns no schedule, not
\* even the months simulated before; a failed call never returns anything,
\* and a call whose EMI is below the first month's interest appends no row
\* and never gets to return.
C5_NonAmortizingFails ==
    /\ [][(/\ pc = "loop"
           /\ FGt(balance, FZero) /\ month < MAX_MONTHS
           /\ FLt(emi, FMul(balance, monthly_interest_rate)))
          => (pc' = "raised" /\ raised' = EmiTooLow /\ returned' = None)]_vars
    /\ [](pc = "raised" => returned = None)
    /\ []((call.loan_amount > 0 /\ call.emi # None
             /\ FLt(FromInt(call.emi[1]), FirstInterest))
            => (pc \in {"call", "loop", "raised"} /\ schedule = <<>>))

\* the error raised in a later month, after rows had been appended
C5_Witness ==
    /\ pc = "raised"
    /\ raised = EmiTooLow
    /\ month >= 2
    /\ schedule # <<>>
    /\ returned = None

(* -------------------------------- C6 ---------------------------------- *)
\* C6 as stated: a call with loan_amount <= 0 and an emi or a target_months
\* supplied fails with a ValueError and never returns an empty schedule.
C6_NonPositiveLoanIsValueError ==
    (/\ call.loan_amount <= 0
     /\ call.emi # None \/ call.target_months # None
     /\ pc \in {"done", "raised"})
        => (pc = "raised" /\ raised[1] = "ValueError")

(* -------------------------------- C7 ---------------------------------- *)
\* C7: with emi and target_months both absent the call fails with the "You
\* must specify either emi or target_months" ValueError before any month is
\* simulated, whatever the loan amount, the rate and the lump sums.
C7_MissingEmiAndTarget ==
    (call.emi = None /\ call.target_months = None /\ pc # "call")
        => /\ pc = "raised"
           /\ raised = MissingEmi
           /\ month = 0
           /\ schedule = <<>>
           /\ returned = None

\* the error for a positive loan that was given lump sums
C7_Witness ==
    /\ call.emi = None /\ call.target_months = None
    /\ call.loan_amount > 0
    /\ NormaliseLumps(call.lump_sums) # {}
    /\ pc = "raised"
    /\ raised = MissingEmi

ZeroRateBackSolve ==
    /\ call.annual_interest_rate = 0
    /\ call.emi = None
    /\ call.target_months # None
    /\ call.target_months[1] >= 1

\* x is p / q up to the rounding of one float operation:
\* |x * q - p| <= |p| * 2^(-Prec)
IsQuotient(x, p, q) ==
    IF x[2] >= 0
    THEN Abs(x[1] * (2 ^ x[2]) * q - p) * (2 ^ Prec) <= Abs(p)
    ELSE Abs(x[1] * q - p * (2 ^ (-x[2]))) * (2 ^ Prec)
            <= Abs(p) * (2 ^ (-x[2]))

\* C9: back-solving with a zero rate uses emi = loan_amount / target_months
\* (the float quotient), and every entry of the schedule has interest 0.
C9_ZeroRateBackSolve ==
    (ZeroRateBackSolve /\ pc # "call") =>
        /\ raised # ZeroDivision
        /\ (pc = "loop" /\ month = 0) =>
              /\ emi = FDiv(FromInt(call.loan_amount),
                            FromInt(call.target_months[1]))
              /\ IsQuotient(emi, call.loan_amount, call.target_months[1])
        /\ \A m \in 1 .. Len(schedule) :
              /\ schedule[m].InterestPaid = 0
              /\ ledger[m].interest = FZero
        /\ total_interest_paid = FZero

\* a zero-rate loan back-solved over several months and paid off
C9_Witness ==
    /\ ZeroRateBackSolve
    /\ call.target_months[1] >= 2
    /\ call.loan_amount >= 2
    /\ pc = "done"
    /\ Len(Df) >= 2

(* -------------------------------- C10 --------------------------------- *)
\* the call back-solves the EMI of a positive loan over n >= 1 months, with
\* no lump sums
BackSolveCall ==
    /\ call.loan_amount > 0
    /\ call.annual_interest_rate >= 0
    /\ call.emi = None
    /\ call.target_months # None
    /\ call.target_months[1] >= 1
    /\ NormaliseLumps(call.lump_sums) = {}

\* n^2 * (1 + r)^n <= 2^Prec: the growth of the balance over the term stays
\* far below the precision of the floats
WellConditioned ==
    LET n == call.target_months[1]
        x == FPow(FAdd(FromInt(1), MonthlyRate(call.annual_interest_rate)), n)
    IN  FLe(FMul(FromInt(n * n), x), FromInt(2 ^ Prec))

\* C10 as stated: a schedule back-solved for target_months = n has at most n
\* entries.
C10_AtMostTargetMonths ==
    (BackSolveCall /\ pc = "done") => Len(Df) <= call.target_months[1]

\* C10 amended: a schedule back-solved for target_months = n has at most
\* n + 1 entries (the rounding of the back-solved EMI can leave a residue
\* that takes one more month), for terms with n^2 * (1 + r)^n <= 2^Prec.
C10_AtMostOneMonthMore ==
    (BackSolveCall /\ WellConditioned /\ pc # "call") =>
        /\ pc # "raised"
        /\ Len(schedule) <= call.target_months[1] + 1

\* a back-solved schedule that needs exactly one month more than the target
C10_Witness ==
    /\ BackSolveCall
    /\ WellConditioned
    /\ pc = "done"
    /\ call.annual_interest_rate > 0
    /\ Len(Df) = call.target_months[1] + 1

(* ====================================================================== *)
(* The sequence similarity engine                                         *)
(* (src/src/string_algorithms/scripts/string_subsequence_matching.py,     *)
(*  src/src/string_algorithms/string_sequence_matcher.py and the /compare *)
(*  handler of src/src/string_algorithms/demos/app.py).                   *)
(*                                                                        *)
(* A string is a sequence of characters and a character is a TLA+ string. *)
(* Offsets are Python's: they start at 0 and a range lo..hi excludes hi.  *)
(* ====================================================================== *)

(* ------------------------------- bounds ------------------------------- *)
\* texts and subtexts over {"a", "b"} have up to MaxLen characters
MaxLen == 4
\* texts and subtexts given to the preprocessing have up to MaxOptLen
MaxOptLen == 2
\* the long texts and subtexts hold a run of LongLen equal characters
LongLen == 200

(* --------------------------- program constants ------------------------ *)
\* SequenceMatcher(isjunk, a, b) leaves autojunk at its default, True: when
\* b has at least AutojunkMinLen elements, those that occur more than
\* len(b) // AutojunkDivisor + 1 times are "popular" and are not indexed
autojunk == TRUE

AutojunkMinLen == 200

AutojunkDivisor == 100

(* ------------------------------ strings ------------------------------- *)
At(s, i) == s[i + 1]

\* s[lo:hi], for 0 <= lo: an end beyond the string is cut to its length
Slice(s, lo, hi) == SubSeq(s, lo + 1, Min(hi, Len(s)))

Chars(s) == {s[n] : n \in 1 .. Len(s)}

StringsOver(alphabet, n) == UNION {[1 .. k -> alphabet] : k \in 0 .. n}

Repeat(c, n) == [k \in 1 .. n |-> c]

RECURSIVE SumSeq(_)
SumSeq(s) == IF s = <<>> THEN 0 ELSE s[1] + SumSeq(Tail(s))

(* ----------------------- difflib.SequenceMatcher ----------------------- *)
\* An intermediate result that is used more than once is bound by a
\* quantifier over a one-element set, {F(v) : v \in {e}}, so that it is
\* computed once, like the local variable of the code it stands for.
\* lambda x: False
isjunk(x) == FALSE

bjunk(b) == {c \in Chars(b) : isjunk(c)}

bpopular(b) ==
    IF autojunk /\ Len(b) >= AutojunkMinLen
    THEN {c \in Chars(b) \ bjunk(b) :
            Cardinality({j \in 1 .. Len(b) : b[j] = c})
                > Len(b) \div AutojunkDivisor + 1}
    ELSE {}

\* the characters of b that b2j indexes
b2j(b) == Chars(b) \ (bjunk(b) \cup bpopular(b))

\* the number of steps t = 0, 1, ... below limit a loop makes while Ok[t]
StepsWhile(limit, Ok) ==
    IF \A t \in 0 .. limit - 1 : Ok[t] THEN limit
    ELSE CHOOSE t \in 0 .. limit - 1 :
            ~Ok[t] /\ \A u \in 0 .. t - 1 : Ok[u]

\* j2len[j] after row i of find_longest_match: the length of the run of
\* indexed matches that ends at a[i], b[j] and starts at or after alo, blo
\* (newj2len[j] = j2len.get(j - 1, 0) + 1, row after row)
j2len(a, b, keys, alo, blo, i, j) ==
    StepsWhile(Min(i - alo, j - blo) + 1,
               [t \in 0 .. Min(i - alo, j - blo) |->
                   At(b, j - t) \in keys /\ At(a, i - t) = At(b, j - t)])

\* while besti > alo and bestj > blo and (b[bestj-1] is junk) == want and
\* a[besti-1] == b[bestj-1]: the match grows to the left
ExtendBack(a, b, junk, want, alo, blo, m) ==
    LET n == StepsWhile(Min(m[1] - alo, m[2] - blo),
                 [t \in 0 .. Min(m[1] - alo, m[2] - blo) - 1 |->
                     /\ (At(b, m[2] - 1 - t) \in junk) = want
                     /\ At(a, m[1] - 1 - t) = At(b, m[2] - 1 - t)])
    IN  <<m[1] - n, m[2] - n, m[3] + n>>

\* mutant: the match grows to the right without comparing the characters
ExtendForward_Unchecked(a, b, junk, want, ahi, bhi, m) ==
    LET n == StepsWhile(Min(ahi - (m[1] + m[3]), bhi - (m[2] + m[3])),
                 [t \in 0 .. Min(ahi - (m[1] + m[3]), bhi - (m[2] + m[3])) - 1 |->
                     (At(b, m[2] + m[3] + t) \in junk) = want])
    IN  <<m[1], m[2], m[3] + n>>

\* while besti+bestsize < ahi and bestj+bestsize < bhi and
\* (b[bestj+bestsize] is junk) == want and the characters agree: the match
\* grows to the right
ExtendForward(a, b, junk, want, ahi, bhi, m) ==
    LET n == StepsWhile(Min(ahi - (m[1] + m[3]), bhi - (m[2] + m[3])),
                 [t \in 0 .. Min(ahi - (m[1] + m[3]), bhi - (m[2] + m[3])) - 1 |->
                     /\ (At(b, m[2] + m[3] + t) \in junk) = want
                     /\ At(a, m[1] + m[3] + t) = At(b, m[2] + m[3] + t)])
    IN  <<m[1], m[2], m[3] + n>>

\* the entries of find_longest_match's table: <<i, j, k>> for every
\* k = newj2len[j] of every row i
Runs(a, b, keys, alo, ahi, blo, bhi) ==
    {<<c[1], c[2], j2len(a, b, keys, alo, blo, c[1], c[2])>> :
        c \in {c \in (alo .. ahi - 1) \X {j \in blo .. bhi - 1 : At(b, j) \in keys} :
                 At(a, c[1]) = At(b, c[2])}}

\* besti, bestj, bestsize after the rows: k > bestsize replaces the best, so
\* it is the first longest run in the order of the rows i and, in a row, of
\* the columns j
BestRun(runs, alo, blo) ==
    IF runs = {} THEN <<alo, blo, 0>>
    ELSE CHOOSE m \in
            {<<r[1] - r[3] + 1, r[2] - r[3] + 1, r[3]>> :
                r \in {r \in runs :
                         \A d \in runs :
                            \/ d[3] < r[3]
                            \/ /\ d[3] = r[3]
                               /\ \/ r[1] < d[1]
                                  \/ r[1] = d[1] /\ r[2] <= d[2]}} : TRUE

\* the match <<besti, bestj, bestsize>> in a[alo:ahi], b[blo:bhi]
find_longest_match(a, b, keys, junk, alo, ahi, blo, bhi) ==
    CHOOSE m \in
        {ExtendForward(a, b, junk, TRUE, ahi, bhi, m3) :
          m3 \in {ExtendBack(a, b, junk, TRUE, alo, blo, m2) :
            m2 \in {ExtendForward(a, b, junk, FALSE, ahi, bhi, m1) :
              m1 \in {ExtendBack(a, b, junk, FALSE, alo, blo, m0) :
                m0 \in {BestRun(runs, alo, blo) :
                  runs \in {Runs(a, b, keys, alo, ahi, blo, bhi)}}}}}} : TRUE

RECURSIVE MatchingBlocksIn(_, _, _, _, _, _, _, _)
\* the queue of get_matching_blocks: the longest match x of a[alo:ahi] and
\* b[blo:bhi], then the same to its left and to its right
MatchingBlocksIn(a, b, keys, junk, alo, ahi, blo, bhi) ==
    UNION
        {IF x[3] = 0 THEN {}
         ELSE {x}
              \cup (IF alo < x[1] /\ blo < x[2]
                    THEN MatchingBlocksIn(a, b, keys, junk, alo, x[1], blo, x[2])
                    ELSE {})
              \cup (IF x[1] + x[3] < ahi /\ x[2] + x[3] < bhi
                    THEN MatchingBlocksIn(a, b, keys, junk,
                                          x[1] + x[3], ahi, x[2] + x[3], bhi)
                    ELSE {}) :
            x \in {find_longest_match(a, b, keys, junk, alo, ahi, blo, bhi)}}

\* the order of Python tuples
TupleLess(x, y) ==
    \/ x[1] < y[1]
    \/ x[1] = y[1] /\ x[2] < y[2]
    \/ x[1] = y[1] /\ x[2] = y[2] /\ x[3] < y[3]

RECURSIVE SortBlocks(_)
\* matching_blocks.sort()
SortBlocks(S) ==
    IF S = {} THEN <<>>
    ELSE CHOOSE sorted \in
            {<<least>> \o SortBlocks(S \ {least}) :
                least \in {x \in S : \A y \in S \ {x} : TupleLess(x, y)}} : TRUE

RECURSIVE Collapse(_, _, _)
\* adjacent blocks are merged into one: cur is (i1, j1, k1)
Collapse(blocks, n, cur) ==
    IF n > Len(blocks) THEN (IF cur[3] # 0 THEN <<cur>> ELSE <<>>)
    ELSE CHOOSE out \in
            {IF cur[1] + cur[3] = x[1] /\ cur[2] + cur[3] = x[2]
             THEN CHOOSE merged \in
                    {Collapse(blocks, n + 1, c) :
                        c \in {<<cur[1], cur[2], cur[3] + x[3]>>}} : TRUE
             ELSE (IF cur[3] # 0 THEN <<cur>> ELSE <<>>)
                  \o Collapse(blocks, n + 1, x) :
                x \in {blocks[n]}} : TRUE

get_matching_blocks(a, b) ==
    CHOOSE blocks \in
        {Collapse(sorted, 1, <<0, 0, 0>>) \o <<<<Len(a), Len(b), 0>>>> :
          sorted \in {SortBlocks(MatchingBlocksIn(a, b, index[1], index[2],
                                                  0, Len(a), 0, Len(b))) :
            index \in {<<b2j(b), bjunk(b)>>}}} : TRUE

\* mutant: text that is only deleted is tagged as replaced
Tag_DeleteAsReplace(i, ai, j, bj) ==
    IF i < ai THEN "replace"
    ELSE IF j < bj THEN "insert"
    ELSE ""

\* mutant: text that is only inserted is tagged as deleted
Tag_InsertAsDelete(i, ai, j, bj) ==
    IF i < ai /\ j < bj THEN "replace"
    ELSE IF i < ai \/ j < bj THEN "delete"
    ELSE ""

\* the tag of what lies between the last block and the block at ai, bj
Tag(i, ai, j, bj) ==
    IF i < ai /\ j < bj THEN "replace"
    ELSE IF i < ai THEN "delete"
    ELSE IF j < bj THEN "insert"
    ELSE ""

RECURSIVE Opcodes(_, _, _, _)
\* the loop of get_opcodes over the matching blocks, from block n on
Opcodes(blocks, n, i, j) ==
    IF n > Len(blocks) THEN <<>>
    ELSE CHOOSE answer \in
            {(IF Tag(i, x[1], j, x[2]) # ""
              THEN <<<<Tag(i, x[1], j, x[2]), i, x[1], j, x[2]>>>>
              ELSE <<>>)
             \o (IF x[3] # 0
                 THEN <<<<"equal", x[1], x[1] + x[3], x[2], x[2] + x[3]>>>>
                 ELSE <<>>)
             \o Opcodes(blocks, n + 1, x[1] + x[3], x[2] + x[3]) :
                x \in {blocks[n]}} : TRUE

get_opcodes(a, b) ==
    CHOOSE answer \in
        {Opcodes(blocks, 1, 0, 0) : blocks \in {get_matching_blocks(a, b)}} : TRUE

(* --------------------------- compare_strings --------------------------- *)
\* (operation, source_substring, target_substring, source_start, target_start)
compare_strings(source_text, target_text) ==
    CHOOSE differences \in
        {[n \in 1 .. Len(ops) |->
            <<ops[n][1],
              Slice(source_text, ops[n][2], ops[n][3]),
              Slice(target_text, ops[n][4], ops[n][5]),
              ops[n][2],
              ops[n][4]>>] :
            ops \in {get_opcodes(source_text, target_text)}} : TRUE

(* ------------------ _calculate_substring_similarity -------------------- *)
RECURSIVE SortByTextStart(_)
\* matching_segments.sort(key=lambda x: x[1][0]): a stable sort
SortByTextStart(segs) ==
    IF segs = <<>> THEN <<>>
    ELSE CHOOSE out \in
            {SubSeq(sorted, 1,
                    Cardinality({n \in 1 .. Len(sorted) :
                                   sorted[n][2][1] <= segs[Len(segs)][2][1]}))
             \o <<segs[Len(segs)]>>
             \o SubSeq(sorted,
                       Cardinality({n \in 1 .. Len(sorted) :
                                      sorted[n][2][1] <= segs[Len(segs)][2][1]}) + 1,
                       Len(sorted)) :
                sorted \in {SortByTextStart(SubSeq(segs, 1, Len(segs) - 1))}} : TRUE

\* the equal, replace and insert operations with their ranges in text and
\* in subtext, sorted by the start in text
matching_segments(text, subtext) ==
    CHOOSE segs \in
        {SortByTextStart(
            [n \in 1 .. Len(kept) |->
                <<kept[n][1],
                  <<kept[n][4], kept[n][4] + Len(kept[n][2])>>,
                  <<kept[n][5], kept[n][5] + Len(kept[n][3])>>>>]) :
            kept \in {SelectSeq(compare_strings(text, subtext),
                                LAMBDA d : d[1] \in {"equal", "replace", "insert"})}} :
        TRUE

\* mutant: the text before the first matching segment counts as a gap too
unmatched_segments_FromTextStart(segs) ==
    SelectSeq([n \in 1 .. Len(segs) |->
                  <<IF n = 1 THEN 0 ELSE segs[n - 1][2][2], segs[n][2][1]>>],
              LAMBDA u : u[1] < u[2])

\* mutant: no gap is recorded
unmatched_segments_None(segs) == SubSeq(segs, 1, 0)

\* the gaps of text between one matching segment and the next
unmatched_segments(segs) ==
    SelectSeq([n \in 1 .. Len(segs) - 1 |-> <<segs[n][2][2], segs[n + 1][2][1]>>],
              LAMBDA u : u[1] < u[2])

\* mutant: the segments are not told apart by their operation
OfOperation_AnyOperation(segs, op) == segs

\* the segments of one operation
OfOperation(segs, op) == SelectSeq(segs, LAMBDA g : g[1] = op)

\* mutant: the exact matches are cut out of text at their place in subtext
exact_matches_AtSubtextRange(text, equals) ==
    [n \in 1 .. Len(equals) |-> Slice(text, equals[n][3][1], equals[n][3][2])]

\* text[t_range[0] : t_range[1]] of every equal segment
exact_matches(text, equals) ==
    [n \in 1 .. Len(equals) |-> Slice(text, equals[n][2][1], equals[n][2][2])]

\* mutant: the operands are swapped
unmatched_char_count_Swapped(text, subtext, matched_char_count) ==
    matched_char_count - Len(subtext)

\* mutant: the unmatched characters are counted against text
unmatched_char_count_OfText(text, subtext, matched_char_count) ==
    Len(text) - matched_char_count

\* text_length = len(text); subtext_length = len(subtext);
\* unmatched_char_count = subtext_length - matched_char_count
unmatched_char_count(text, subtext, matched_char_count) ==
    Len(subtext) - matched_char_count

\* the metrics and fragments, from the matching segments and the gaps
Metrics(text, subtext, equals, replaces, inserts, unmatched) ==
    LET gap_char_count      == SumSeq([n \in 1 .. Len(unmatched) |->
                                          unmatched[n][2] - unmatched[n][1]])
        matched_char_count  == SumSeq([n \in 1 .. Len(equals) |->
                                          equals[n][3][2] - equals[n][3][1]])
        inserted_char_count == SumSeq([n \in 1 .. Len(inserts) |->
                                          inserts[n][3][2] - inserts[n][3][1]])
        replaced_char_count == SumSeq([n \in 1 .. Len(replaces) |->
                                          replaces[n][2][2] - replaces[n][2][1]])
        unmatched_count == unmatched_char_count(text, subtext, matched_char_count)
    IN  [dissimilarity_score  |-> unmatched_count + inserted_char_count
                                    + replaced_char_count + gap_char_count,
         text_length          |-> Len(text),
         subtext_length       |-> Len(subtext),
         unmatched_char_count |-> unmatched_count,
         matched_char_count   |-> matched_char_count,
         gap_char_count       |-> gap_char_count,
         inserted_char_count  |-> inserted_char_count,
         replaced_char_count  |-> replaced_char_count,
         matches      |-> exact_matches(text, equals),
         replacements |-> [n \in 1 .. Len(replaces) |->
                              <<Slice(text, replaces[n][2][1], replaces[n][2][2]),
                                Slice(subtext, replaces[n][3][1], replaces[n][3][2])>>],
         gaps         |-> [n \in 1 .. Len(unmatched) |->
                              Slice(text, unmatched[n][1], unmatched[n][2])]]

\* string_subsequence_matching.py
_calculate_substring_similarity(text, subtext) ==
    CHOOSE res \in
        {Metrics(text, subtext, OfOperation(segs, "equal"),
                 OfOperation(segs, "replace"), OfOperation(segs, "insert"),
                 unmatched_segments(segs)) :
            segs \in {matching_segments(text, subtext)}} : TRUE

\* string_sequence_matcher.py: the same code
calculate_string_similarity(text, subtext) ==
    CHOOSE res \in
        {Metrics(text, subtext, OfOperation(segs, "equal"),
                 OfOperation(segs, "replace"), OfOperation(segs, "insert"),
                 unmatched_segments(segs)) :
            segs \in {matching_segments(text, subtext)}} : TRUE

(* ---------------------------- preprocessing ---------------------------- *)
\* The characters of the preprocessing inputs: "A", " " and "acute" (the
\* combining acute accent U+0301); preprocessing also yields "a",
\* "A_acute" (U+00C1) and "a_acute" (U+00E1).
RECURSIVE NFKC(_)
\* unicodedata.normalize("NFKC", s): a combining acute accent is composed
\* with the letter before it
NFKC(s) ==
    IF Len(s) < 2 THEN s
    ELSE IF s[2] = "acute" /\ s[1] \in {"A", "a"}
         THEN <<IF s[1] = "A" THEN "A_acute" ELSE "a_acute">>
              \o NFKC(SubSeq(s, 3, Len(s)))
         ELSE <<s[1]>> \o NFKC(Tail(s))

\* re.sub(r"\s+", "", s)
StripWhitespace(s) == SelectSeq(s, LAMBDA c : c # " ")

\* s.casefold()
casefold(s) ==
    [n \in 1 .. Len(s) |->
        IF s[n] = "A" THEN "a"
        ELSE IF s[n] = "A_acute" THEN "a_acute"
        ELSE s[n]]

\* processed_text or processed_sub of calculate_substring_similarity
Processed(s, case_sensitive, ignore_whitespace, normalize) ==
    LET normalized == IF normalize THEN NFKC(s) ELSE s
        stripped   == IF ignore_whitespace THEN StripWhitespace(normalized)
                      ELSE normalized
    IN  IF ~case_sensitive THEN casefold(stripped) ELSE stripped

\* the meta-information appended when debug is true
Meta(text, sub, case_sensitive, ignore_whitespace, normalize, processed) ==
    [case_sensitive    |-> case_sensitive,
     ignore_whitespace |-> ignore_whitespace,
     normalize         |-> normalize,
     original_text     |-> text,
     original_sub      |-> sub,
     processed_text    |-> processed[1],
     processed_sub     |-> processed[2]]

\* mutant: the meta-information is appended whatever debug is
calculate_substring_similarity_AlwaysDebug(text, sub, case_sensitive, ignore_whitespace, normalize, debug) ==
    CHOOSE res \in
        {_calculate_substring_similarity(processed[1], processed[2])
         @@ Meta(text, sub, case_sensitive, ignore_whitespace, normalize,
                 processed) :
            processed \in
                {<<Processed(text, case_sensitive, ignore_whitespace, normalize),
                   Processed(sub, case_sensitive, ignore_whitespace, normalize)>>}} :
        TRUE

calculate_substring_similarity(text, sub, case_sensitive, ignore_whitespace, normalize, debug) ==
    CHOOSE res \in
        {IF debug = TRUE
         THEN _calculate_substring_similarity(processed[1], processed[2])
              @@ Meta(text, sub, case_sensitive, ignore_whitespace, normalize,
                      processed)
         ELSE _calculate_substring_similarity(processed[1], processed[2]) :
            processed \in
                {<<Processed(text, case_sensitive, ignore_whitespace, normalize),
                   Processed(sub, case_sensitive, ignore_whitespace, normalize)>>}} :
        TRUE

\* data.get(key, default) of the /compare handler
Get(field, default) == IF field = None THEN default ELSE field[1]

\* the /compare handler: the body of its JSON response
compare(data) ==
    [matches |-> calculate_substring_similarity(
                    data.text, data.subtext,
                    Get(data.case_sensitive, TRUE),
                    Get(data.ignore_whitespace, FALSE),
                    Get(data.normalize, FALSE),
                    FALSE)]

(* ------------------------------ the calls ------------------------------ *)
ShortStrings == StringsOver({"a", "b"}, MaxLen)

OptStrings == StringsOver({"A", " ", "acute"}, MaxOptLen)

\* long subtexts, above the autojunk threshold, and texts that contain them
LongSubtext == Repeat("a", LongLen)

LongTexts ==
    {LongSubtext, <<"b">> \o LongSubtext, LongSubtext \o <<"b">>,
     <<"b">> \o LongSubtext \o <<"b">>}

\* calculate_string_similarity(text, subtext)
StringSimilarityCalls ==
    {[fn |-> "calculate_string_similarity", text |-> t, sub |-> s] :
        t \in ShortStrings, s \in ShortStrings}
    \cup {[fn |-> "calculate_string_similarity", text |-> t, sub |-> LongSubtext] :
        t \in LongTexts}

\* calculate_substring_similarity(text, sub, case_sensitive=...,
\* ignore_whitespace=..., normalize=..., debug=...)
SubstringSimilarityCalls ==
    [fn : {"calculate_substring_similarity"}, text : OptStrings, sub : OptStrings,
     case_sensitive : BOOLEAN, ignore_whitespace : BOOLEAN, normalize : BOOLEAN,
     debug : BOOLEAN]
    \cup {[fn |-> "calculate_substring_similarity", text |-> p[1], sub |-> p[2],
           case_sensitive |-> TRUE, ignore_whitespace |-> FALSE,
           normalize |-> FALSE, debug |-> FALSE] :
            p \in (ShortStrings \X ShortStrings) \cup (LongTexts \X {LongSubtext})}

\* the JSON body of a POST /compare: the options are given or left out
CompareRequests ==
    {[fn |-> "compare",
      data |-> [text |-> t, subtext |-> s, case_sensitive |-> o[1],
                ignore_whitespace |-> o[2], normalize |-> o[3]]] :
        t \in OptStrings, s \in OptStrings,
        o \in {<<None, None, None>>}
              \cup {<<Some(c), Some(w), Some(n)>> :
                      c \in BOOLEAN, w \in BOOLEAN, n \in BOOLEAN}}

SimCalls == StringSimilarityCalls \cup SubstringSimilarityCalls \cup CompareRequests

(* ------------------------------ actions ------------------------------- *)
\* simulate_loan is not running
LoanIdle ==
    /\ call = None
    /\ pc = "idle"
    /\ monthly_interest_rate = FZero
    /\ lump_sums = {}
    /\ emi = None
    /\ balance = FZero
    /\ month = 0
    /\ total_interest_paid = FZero
    /\ schedule = <<>>
    /\ ledger = <<>>
    /\ raised = None
    /\ returned = None

SimInit ==
    /\ sim_call \in SimCalls
    /\ sim_pc = "call"
    /\ results = None
    /\ LoanIdle
    /\ HttpIdle
    /\ LoggingUntouched

StringSimilarityCall ==
    /\ sim_pc = "call"
    /\ sim_call.fn = "calculate_string_similarity"
    /\ results' = Some(calculate_string_similarity(sim_call.text, sim_call.sub))
    /\ sim_pc' = "done"
    /\ UNCHANGED <<sim_call, vars, httpvars, logvars>>

SubstringSimilarityCall ==
    /\ sim_pc = "call"
    /\ sim_call.fn = "calculate_substring_similarity"
    /\ results' = Some(calculate_substring_similarity(
                          sim_call.text, sim_call.sub, sim_call.case_sensitive,
                          sim_call.ignore_whitespace, sim_call.normalize,
                          sim_call.debug))
    /\ sim_pc' = "done"
    /\ UNCHANGED <<sim_call, vars, httpvars, logvars>>

CompareRequest ==
    /\ sim_pc = "call"
    /\ sim_call.fn = "compare"
    /\ results' = Some(compare(sim_call.data))
    /\ sim_pc' = "done"
    /\ UNCHANGED <<sim_call, vars, httpvars, logvars>>

SimNext == StringSimilarityCall \/ SubstringSimilarityCall \/ CompareRequest

SimSpec == SimInit /\ [][SimNext]_allvars

(* ------------ vocabulary of the claims on the similarity engine -------- *)
\* the text and the subtext given to the call
GivenText == IF sim_call.fn = "compare" THEN sim_call.data.text ELSE sim_call.text

GivenSub == IF sim_call.fn = "compare" THEN sim_call.data.subtext ELSE sim_call.sub

\* the preprocessing options in force during the call
Options ==
    IF sim_call.fn = "compare"
    THEN [case_sensitive    |-> Get(sim_call.data.case_sensitive, TRUE),
          ignore_whitespace |-> Get(sim_call.data.ignore_whitespace, FALSE),
          normalize         |-> Get(sim_call.data.normalize, FALSE)]
    ELSE IF sim_call.fn = "calculate_substring_similarity"
    THEN [case_sensitive    |-> sim_call.case_sensitive,
          ignore_whitespace |-> sim_call.ignore_whitespace,
          normalize         |-> sim_call.normalize]
    ELSE [case_sensitive |-> TRUE, ignore_whitespace |-> FALSE, normalize |-> FALSE]

PreprocessingActive ==
    ~Options.case_sensitive \/ Options.ignore_whitespace \/ Options.normalize

\* the strings the alignment is computed on
ProcessedText ==
    Processed(GivenText, Options.case_sensitive, Options.ignore_whitespace,
              Options.normalize)

ProcessedSub ==
    Processed(GivenSub, Options.case_sensitive, Options.ignore_whitespace,
              Options.normalize)

\* the call has returned
SimDone == sim_pc = "done"

\* the similarity result the call returned
Similarity == IF sim_call.fn = "compare" THEN results[1].matches ELSE results[1]

\* x occurs contiguously in s
IsSubstring(x, s) ==
    \E lo \in 0 .. Len(s) - Len(x) : Slice(s, lo, lo + Len(x)) = x

(* -------------------------------- C11 --------------------------------- *)
\* C11 as stated: for every text and every non-empty subtext that occurs
\* contiguously in text, whatever its length and however repetitive it is,
\* the result has matched_char_count = len(subtext), unmatched_char_count = 0,
\* replaced_char_count = 0, inserted_char_count = 0 and matches = [subtext].
C11_ExactSubstring ==
    (/\ SimDone
     /\ ~PreprocessingActive
     /\ GivenSub # <<>>
     /\ IsSubstring(GivenSub, GivenText))
        => /\ Similarity.matched_char_count = Len(GivenSub)
           /\ Similarity.unmatched_char_count = 0
           /\ Similarity.replaced_char_count = 0
           /\ Similarity.inserted_char_count = 0
           /\ Similarity.matches = <<GivenSub>>

(* -------------------------------- C12 --------------------------------- *)
RECURSIVE LcsLength(_, _)
\* the length of a longest common subsequence of a and b
LcsLength(a, b) ==
    IF a = <<>> \/ b = <<>> THEN 0
    ELSE IF a[Len(a)] = b[Len(b)]
         THEN 1 + LcsLength(SubSeq(a, 1, Len(a) - 1), SubSeq(b, 1, Len(b) - 1))
         ELSE Max(LcsLength(SubSeq(a, 1, Len(a) - 1), b),
                  LcsLength(a, SubSeq(b, 1, Len(b) - 1)))

\* the equal segments of the alignment the call computed
EqualSegments == OfOperation(matching_segments(ProcessedText, ProcessedSub), "equal")

\* the equal segments, taken in order, are a common subsequence of the two
\* strings: each covers the same characters in both, and each lies after
\* the one before it in both
EqualSegmentsAreCommonSubsequence ==
    LET eq == EqualSegments
    IN  /\ Len(Similarity.matches) = Len(eq)
        /\ \A n \in 1 .. Len(eq) :
              /\ 0 <= eq[n][2][1] /\ eq[n][2][2] <= Len(ProcessedText)
              /\ 0 <= eq[n][3][1] /\ eq[n][3][2] <= Len(ProcessedSub)
              /\ eq[n][2][1] < eq[n][2][2]
              /\ Slice(ProcessedText, eq[n][2][1], eq[n][2][2]) = Similarity.matches[n]
              /\ Slice(ProcessedSub, eq[n][3][1], eq[n][3][2]) = Similarity.matches[n]
              /\ n > 1 => /\ eq[n - 1][2][2] <= eq[n][2][1]
                          /\ eq[n - 1][3][2] <= eq[n][3][1]
        /\ Similarity.matched_char_count =
              SumSeq([n \in 1 .. Len(eq) |-> Len(Similarity.matches[n])])

\* the strings are short enough for LcsLength
ShortInputs == Len(ProcessedText) <= MaxLen /\ Len(ProcessedSub) <= MaxLen

\* C12 as stated: the equal segments form a common subsequence of text and
\* subtext and matched_char_count is the length of a longest common
\* subsequence of the two.
C12_MatchedIsLongest ==
    SimDone =>
        /\ EqualSegmentsAreCommonSubsequence
        /\ ShortInputs =>
              Similarity.matched_char_count = LcsLength(ProcessedText, ProcessedSub)

\* C12, amended: the equal segments form a common subsequence of text and
\* subtext, so matched_char_count is at most the length of a longest common
\* subsequence; it need not reach it.
C12_CommonSubsequenceAtMostLongest ==
    SimDone =>
        /\ EqualSegmentsAreCommonSubsequence
        /\ ShortInputs =>
              Similarity.matched_char_count <= LcsLength(ProcessedText, ProcessedSub)

\* a call whose alignment matches some characters, but fewer than a longest
\* common subsequence has
C12_Witness ==
    /\ SimDone
    /\ ShortInputs
    /\ Similarity.matched_char_count > 0
    /\ Similarity.matched_char_count < LcsLength(ProcessedText, ProcessedSub)

(* -------------------------------- C13 --------------------------------- *)
\* C13: for every text and subtext the similarity result has
\* dissimilarity_score >= 0 and 0 <= matched_char_count <= len(subtext),
\* text and subtext being the strings the calculator is given.
C13_ScoreAndMatchedInRange ==
    SimDone =>
        /\ Similarity.dissimilarity_score >= 0
        /\ 0 <= Similarity.matched_char_count
        /\ Similarity.matched_char_count <= Len(ProcessedSub)
        /\ Similarity.subtext_length = Len(ProcessedSub)

\* a call that matched a part of a subtext and left a part of it unmatched
C13_Witness ==
    /\ SimDone
    /\ 0 < Similarity.matched_char_count
    /\ Similarity.matched_char_count < Len(ProcessedSub)
    /\ Similarity.dissimilarity_score > 0

(* -------------------------------- C14 --------------------------------- *)
\* every fragment of the result is a substring of t or s: a match occurs
\* in both, a replacement pair has its original in t and its replacement
\* in s, a gap occurs in t
FragmentsIn(t, s) ==
    /\ \A n \in 1 .. Len(Similarity.matches) :
          /\ IsSubstring(Similarity.matches[n], t)
          /\ IsSubstring(Similarity.matches[n], s)
    /\ \A n \in 1 .. Len(Similarity.replacements) :
          /\ IsSubstring(Similarity.replacements[n][1], t)
          /\ IsSubstring(Similarity.replacements[n][2], s)
    /\ \A n \in 1 .. Len(Similarity.gaps) : IsSubstring(Similarity.gaps[n], t)

\* C14 as stated: for every call of calculate_substring_similarity, with
\* any combination of the preprocessing options, every fragment of the
\* result is a substring of the original inputs.
C14_FragmentsOfOriginals ==
    (SimDone /\ sim_call.fn \in {"calculate_substring_similarity", "compare"})
        => FragmentsIn(GivenText, GivenSub)

\* C14, amended: every fragment of the result is a substring of the
\* preprocessed inputs; these are the original inputs when no option is
\* active.
C14_FragmentsOfProcessed ==
    SimDone =>
        /\ FragmentsIn(ProcessedText, ProcessedSub)
        /\ ~PreprocessingActive =>
              /\ ProcessedText = GivenText
              /\ ProcessedSub = GivenSub
              /\ FragmentsIn(GivenText, GivenSub)

\* a call with an active option whose result has a fragment that is in the
\* preprocessed inputs and not in the original ones
C14_Witness ==
    /\ SimDone
    /\ PreprocessingActive
    /\ Similarity.matches # <<>>
    /\ FragmentsIn(ProcessedText, ProcessedSub)
    /\ ~FragmentsIn(GivenText, GivenSub)

(* -------------------------------- C15 --------------------------------- *)
\* the keys of the result of _calculate_substring_similarity
MetricKeys ==
    {"dissimilarity_score", "text_length", "subtext_length",
     "unmatched_char_count", "matched_char_count", "gap_char_count",
     "inserted_char_count", "replaced_char_count", "matches", "replacements",
     "gaps"}

\* the result records the options of the call and its original inputs
RecordsOptionsAndOriginals ==
    /\ {"case_sensitive", "ignore_whitespace", "normalize", "original_text",
        "original_sub"} \subseteq DOMAIN Similarity
    /\ Similarity.case_sensitive = Options.case_sensitive
    /\ Similarity.ignore_whitespace = Options.ignore_whitespace
    /\ Similarity.normalize = Options.normalize
    /\ Similarity.original_text = GivenText
    /\ Similarity.original_sub = GivenSub

\* the call passed debug=True
DebugCall == sim_call.fn = "calculate_substring_similarity" /\ sim_call.debug

NothingCompared ==
    /\ Similarity.subtext_length = 0
    /\ Similarity.matched_char_count = 0
    /\ Similarity.unmatched_char_count = 0
    /\ Similarity.gap_char_count = 0
    /\ Similarity.inserted_char_count = 0
    /\ Similarity.replaced_char_count = 0
    /\ Similarity.dissimilarity_score = 0
    /\ Similarity.matches = << >>
    /\ Similarity.replacements = << >>
    /\ Similarity.gaps = << >>

\* C16 as stated: two empty inputs give a result with every count 0,
\* text_length included, and empty matches, replacements and gaps, and so
\* does an empty subtext against any text.
C16_EmptySubtextAllZero ==
    (SimDone /\ GivenSub = << >>)
        => (NothingCompared /\ Similarity.text_length = 0)

\* C16, amended: with an empty subtext every count except text_length is 0
\* and the three lists are empty; text_length is the length of the
\* (processed) text, so it is 0 only when the text is empty too.
C16_EmptySubtextNothingCompared ==
    (SimDone /\ GivenSub = << >>)
        => (/\ NothingCompared
            /\ Similarity.text_length = Len(ProcessedText)
            /\ (GivenText = << >> => Similarity.text_length = 0))

\* an empty subtext has been compared against a text that is not empty
C16_Witness ==
    /\ SimDone
    /\ GivenSub = << >>
    /\ GivenText # << >>
    /\ Similarity.text_length > 0
    /\ NothingCompared

(* -------------------------------- C17 --------------------------------- *)
\* the result of the same comparison with text and subtext exchanged
SwappedSimilarity == _calculate_substring_similarity(ProcessedSub, ProcessedText)

\* the subtext is a contiguous part of a longer text, as "World" is of
\* "Hello World", and short enough for every character to be indexed
ProperPartCall ==
    /\ SimDone
    /\ ProcessedSub # << >>
    /\ Len(ProcessedSub) < Len(ProcessedText)
    /\ Len(ProcessedText) < AutojunkMinLen
    /\ IsSubstring(ProcessedSub, ProcessedText)

\* C17: the comparison is not commutative.  Whenever the subtext is a
\* contiguous proper part of the text, the comparison leaves no character
\* of the subtext unmatched, while the exchanged comparison leaves the
\* surplus of the longer string unmatched, so the two results differ in
\* unmatched_char_count and in dissimilarity_score.
C17_NotCommutative ==
    ProperPartCall =>
        /\ Similarity.unmatched_char_count = 0
        /\ SwappedSimilarity.unmatched_char_count
               = Len(ProcessedText) - Len(ProcessedSub)
        /\ Similarity.unmatched_char_count
               # SwappedSimilarity.unmatched_char_count
        /\ Similarity.dissimilarity_score
               # SwappedSimilarity.dissimilarity_score

\* a comparison of a text with a proper part of it whose exchanged
\* comparison gives another unmatched count and another score
C17_Witness ==
    /\ ProperPartCall
    /\ Len(ProcessedSub) > 1
    /\ Similarity.unmatched_char_count # SwappedSimilarity.unmatched_char_count
    /\ Similarity.dissimilarity_score # SwappedSimilarity.dissimilarity_score

(* -------------------------------- C18 --------------------------------- *)
\* the EMI of the call, supplied or back-solved, before any clamp
ResolvedEmi ==
    ResolveEmi(call.emi, call.target_months, FromInt(call.loan_amount),
               MonthlyRate(call.annual_interest_rate)).emi

\* the EMI the loop held when it entered month k
EmiBefore(k) == IF k = 1 THEN ResolvedEmi ELSE ledger[k - 1].emi

\* a lump sum is scheduled for month k
HasScheduledLump(k) == \E p \in lump_sums : p[1] = k

\* the lump sum scheduled for month k, 0 when there is none
ScheduledLump(k) ==
    IF HasScheduledLump(k) THEN (CHOOSE p \in lump_sums : p[1] = k)[2]
    ELSE FZero

\* in month k, (emi - interest) + lump_sum exceeded the remaining balance
Clamped(k) ==
    FGt(FAdd(FSub(EmiBefore(k), ledger[k].interest), ScheduledLump(k)),
        BalanceBefore(k))

\* in month k the scheduled lump sum alone exceeded the remaining balance
LumpAloneExceeds(k) == FGt(ScheduledLump(k), BalanceBefore(k))

\* C18: in a month where (emi - interest) + lump_sum exceeds the remaining
\* balance, that month is the last entry and the loop has ended, the
\* balance is exactly 0, the principal is balance - lump_sum and the
\* reported EMI is that of interest + principal; if the lump sum alone
\* exceeds the balance, the principal is 0, the reported lump sum is that
\* of the balance and the reported EMI is that of the interest.
C18_ClampedMonthIsFinal ==
    \A k \in 1 .. Len(ledger) :
        Clamped(k) =>
            /\ k = Len(ledger)
            /\ pc \in {"report", "done"}
            /\ ledger[k].balance = FZero
            /\ ~LumpAloneExceeds(k) =>
                  /\ ledger[k].principal_payment
                        = FSub(BalanceBefore(k), ScheduledLump(k))
                  /\ schedule[k].EMI
                        = INR(FAdd(ledger[k].interest,
                                   ledger[k].principal_payment))
            /\ LumpAloneExceeds(k) =>
                  /\ ledger[k].principal_payment = FZero
                  /\ schedule[k].LumpSum = Some(INR(BalanceBefore(k)))
                  /\ schedule[k].EMI = INR(ledger[k].interest)

(* -------------------------------- C19 --------------------------------- *)
\* C19: in every returned schedule, every entry except the last reports
\* the supplied or back-solved EMI, and the last entry reports an EMI that
\* is at most that EMI.
C19_EmiConstantUntilLast ==
    pc = "done" =>
        /\ \A i \in 1 .. Len(Df) - 1 : Df[i].EMI = INR(ResolvedEmi)
        /\ Last(Df).EMI <= INR(ResolvedEmi)

(* -------------------------------- C20 --------------------------------- *)
\* the 'Lump Sum' column of a month in which the lump sum x was applied
ReportedLump(x) == IF x # FZero THEN Some(INR(x)) ELSE None

\* C20: a lump sum scheduled for month m is applied in exactly that month.
\* In every month that is reached and in which (emi - interest) + lump sum
\* does not exceed the balance, the entry carries the whole scheduled lump
\* sum and the balance drops by (emi - interest) + lump sum; a month with no
\* scheduled lump sum has a lump sum of 0 and an empty 'Lump Sum' column; a
\* lump sum is applied only in the month it is scheduled for, so one
\* scheduled after the payoff month is never applied.
C20_LumpSumInItsMonth ==
    /\ Len(schedule) = Len(ledger)
    /\ Len(ledger) <= month
    /\ \A k \in 1 .. Len(ledger) :
          /\ schedule[k].Month = k
          /\ schedule[k].LumpSum = ReportedLump(ledger[k].lump_sum)
          /\ ~Clamped(k) =>
                /\ ledger[k].lump_sum = ScheduledLump(k)
                /\ ledger[k].balance
                      = FSub(BalanceBefore(k),
                             FAdd(FSub(EmiBefore(k), ledger[k].interest),
                                  ScheduledLump(k)))
          /\ ~HasScheduledLump(k) =>
                /\ ledger[k].lump_sum = FZero
                /\ schedule[k].LumpSum = None
          /\ ledger[k].lump_sum # FZero => HasScheduledLump(k)
    /\ pc = "done" => Df = schedule

\* a returned schedule in which the lump sum of month 2 was applied in full
\* in month 2, months without a lump sum before and after it
C20_Witness ==
    /\ pc = "done"
    /\ Len(Df) >= 3
    /\ HasScheduledLump(2) /\ ~HasScheduledLump(1) /\ ~HasScheduledLump(3)
    /\ ~Clamped(2)
    /\ ledger[2].lump_sum = ScheduledLump(2)
    /\ Df[2].LumpSum = Some(INR(ScheduledLump(2)))
    /\ Df[1].LumpSum = None /\ Df[3].LumpSum = None

(* -------------------------------- C21 --------------------------------- *)
\* the total length of the strings of a list
TotalLen(strings) == SumSeq([n \in 1 .. Len(strings) |-> Len(strings[n])])

\* the text-side length of the equal and replace segments of the result
AlignedTextLen ==
    TotalLen(Similarity.matches)
    + TotalLen([n \in 1 .. Len(Similarity.replacements) |->
                   Similarity.replacements[n][1]])

\* the operations of the comparison of the processed inputs
Differences == compare_strings(ProcessedText, ProcessedSub)

\* operation n is one that the metrics retain
Retained(n) == Differences[n][1] \in {"equal", "replace", "insert"}

\* the length of the deleted stretches of text that do not lie between two
\* retained operations: those before the first and after the last one
OuterDeletedLen ==
    SumSeq([n \in 1 .. Len(Differences) |->
               IF /\ Differences[n][1] = "delete"
                  /\ ~(/\ \E k \in 1 .. n - 1 : Retained(k)
                       /\ \E k \in n + 1 .. Len(Differences) : Retained(k))
               THEN Len(Differences[n][2])
               ELSE 0])

\* C21 as stated: the gaps are exactly the stretches of text with no
\* aligned material: gap_char_count is len(text) minus the text-side
\* length of the equal and replace segments.
C21_GapsAreAllUnalignedText ==
    SimDone =>
        Similarity.gap_char_count = Len(ProcessedText) - AlignedTextLen

\* C21, amended: the gaps are the stretches of text strictly between one
\* retained segment and the next. gap_char_count is the total length of
\* the gaps, and it is len(text) minus the text-side length of the equal
\* and replace segments minus the unaligned text before the first and
\* after the last retained segment, which is not counted.
C21_GapsAreInnerUnalignedText ==
    SimDone =>
        /\ Similarity.gap_char_count = TotalLen(Similarity.gaps)
        /\ \A n \in 1 .. Len(Similarity.gaps) : Similarity.gaps[n] # << >>
        /\ Similarity.gap_char_count
              = Len(ProcessedText) - AlignedTextLen - OuterDeletedLen

\* a comparison with a gap between two segments and unaligned text outside
C21_Witness ==
    /\ SimDone
    /\ Similarity.gap_char_count > 0
    /\ OuterDeletedLen > 0
    /\ Similarity.gap_char_count < Len(ProcessedText) - AlignedTextLen

(* -------------------------------- C22 --------------------------------- *)
\* C22 as stated: in every replacement pair (orig, repl), orig and repl are
\* both non-empty and differ, sharing no character.
C22_ReplacementsShareNoCharacter ==
    SimDone =>
        \A n \in 1 .. Len(Similarity.replacements) :
            LET orig == Similarity.replacements[n][1]
                repl == Similarity.replacements[n][2]
            IN  /\ orig # << >> /\ repl # << >>
                /\ orig # repl
                /\ Chars(orig) \cap Chars(repl) = {}

(* -------------------------------- C23 --------------------------------- *)
\* both compared strings are non-empty and have no character in common
NothingInCommon ==
    /\ ProcessedText # << >>
    /\ ProcessedSub # << >>
    /\ Chars(ProcessedText) \cap Chars(ProcessedSub) = {}

\* C23: when text and subtext are both non-empty and have no character in
\* common, the result has no matches and no gaps, the one replacement pair
\* (text, subtext), matched_char_count 0, gap_char_count 0,
\* unmatched_char_count len(subtext), replaced_char_count len(text) and a
\* dissimilarity_score greater than 0.
C23_NothingInCommon ==
    (SimDone /\ NothingInCommon) =>
        /\ Similarity.matches = << >>
        /\ Similarity.gaps = << >>
        /\ Similarity.replacements = <<<<ProcessedText, ProcessedSub>>>>
        /\ Similarity.matched_char_count = 0
        /\ Similarity.gap_char_count = 0
        /\ Similarity.unmatched_char_count = Len(ProcessedSub)
        /\ Similarity.replaced_char_count = Len(ProcessedText)
        /\ Similarity.dissimilarity_score > 0

\* two strings of several characters with none in common have been compared
C23_Witness ==
    /\ SimDone
    /\ NothingInCommon
    /\ sim_call.fn = "calculate_string_similarity"
    /\ Len(GivenText) > 1 /\ Len(GivenSub) > 1
    /\ Similarity.replacements = <<<<GivenText, GivenSub>>>>

(* ====================================================================== *)
(* The /simulate endpoint of the loan calculator                           *)
(* (src/src/financial_algorithms/demos/app.py)                             *)
(* ====================================================================== *)
\* the key "m" of a JSON object: a string, which no month (an int) equals;
\* it is held as the number -m, which no month equals either
JsonKey(m) == 0 - m

\* data['lump_sums']: absent, a JSON object or a JSON list of pairs
LumpJson ==
    {[kind |-> "absent", items |-> <<>>],
     [kind |-> "object", items |-> <<<<JsonKey(1), FromInt(1)>>>>],
     [kind |-> "list", items |-> <<<<1, FromInt(1)>>>>]}

\* the JSON bodies of the requests
Requests ==
    {d \in [loan_amount : Loans, annual_interest_rate : Rates, emi : EmiArgs,
            target_months : TargetArgs, lump_sums : LumpJson] :
        /\ (d.emi = None /\ d.target_months # None)
              => d.annual_interest_rate \in BackSolveRates
        /\ d.emi # None => d.target_months \in {None, Some(1)}}

\* the arguments the handler passes to simulate_loan
ArgumentsOf(data) ==
    [loan_amount          |-> data.loan_amount,
     annual_interest_rate |-> data.annual_interest_rate,
     emi                  |-> data.emi,
     target_months        |-> data.target_months,
     lump_sums            |->
         [kind  |-> IF data.lump_sums.kind = "list" THEN "list" ELSE "dict",
          items |-> data.lump_sums.items]]

\* a cell of a numeric column: the digits INR wrote, read back as a number
ToNumeric(cell) == cell

\* loan_amount if i == 0 else 'Remaining Balance' + 'Principal Paid' of
\* the row before (rows are counted from 1 here)
opening_balance(df, loan_amount, i) ==
    IF i = 1 THEN loan_amount
    ELSE ToNumeric(df[i - 1].RemainingBalance)
         + ToNumeric(df[i - 1].PrincipalPaid)

\* schedule_data
schedule_data(df, loan_amount) ==
    [i \in 1 .. Len(df) |->
        [month           |-> df[i].Month,
         opening_balance |-> opening_balance(df, loan_amount, i),
         emi             |-> ToNumeric(df[i].EMI),
         interest        |-> ToNumeric(df[i].InterestPaid),
         principal       |-> ToNumeric(df[i].PrincipalPaid),
         closing_balance |-> ToNumeric(df[i].RemainingBalance)]]

RECURSIVE SumOver(_, _, _)
\* cells[lo] + ... + cells[hi], halving the range
SumOver(cells, lo, hi) ==
    IF lo > hi THEN 0
    ELSE IF lo = hi THEN cells[lo]
    ELSE SumOver(cells, lo, (lo + hi) \div 2)
         + SumOver(cells, (lo + hi) \div 2 + 1, hi)

\* schedule_df[column].sum()
ColumnSum(cells) == SumOver(cells, 1, Len(cells))

\* the JSON answer to a simulation that returned the schedule df
Success(df, loan_amount) ==
    [status |-> 200,
     body   |->
         [total_interest_payable |->
              ColumnSum([i \in 1 .. Len(df) |-> ToNumeric(df[i].InterestPaid)]),
          total_payment |->
              ColumnSum([i \in 1 .. Len(df) |-> ToNumeric(df[i].EMI)]),
          num_months |-> Len(df),
          num_years  |-> FDiv(FromInt(Len(df)), FromInt(12)),
          schedule   |-> schedule_data(df, loan_amount)]]

\* except ValueError: the answer 400 with the message; any other exception
\* leaves the handler, and the server answers 500 without the message
Failure(exception) ==
    IF exception[1] = "ValueError"
    THEN [status |-> 400, body |-> [error |-> exception[2]]]
    ELSE [status |-> 500, body |-> [unhandled |-> exception[1]]]

HttpInit ==
    /\ request \in {Some(d) : d \in Requests}
    /\ response = None
    /\ LoanIdle
    /\ sim_call = None
    /\ sim_pc = "idle"
    /\ results = None
    /\ LoggingUntouched

\* the handler reads the body and calls simulate_loan
SimulateCall ==
    /\ pc = "idle"
    /\ response = None
    /\ call' = ArgumentsOf(request[1])
    /\ pc' = "call"
    /\ UNCHANGED <<monthly_interest_rate, lump_sums, emi, balance, month,
                   total_interest_paid, schedule, ledger, raised, returned>>
    /\ UNCHANGED <<simvars, httpvars, logvars>>

\* simulate_loan has returned or raised: the handler answers
SimulateRespond ==
    /\ pc \in {"done", "raised"}
    /\ request # None
    /\ response = None
    /\ response' = Some(IF pc = "done"
                        THEN Success(returned[1], request[1].loan_amount)
                        ELSE Failure(raised))
    /\ UNCHANGED <<request, vars, simvars, logvars>>

HttpNext ==
    SimulateCall \/ Enter \/ MonthStep \/ ExitLoop \/ Report \/ SimulateRespond

HttpSpec == HttpInit /\ [][HttpNext]_allvars

(* -------------------------------- C24 --------------------------------- *)
\* the handler has answered
Answered == response # None

\* C24: every failure of simulate_loan is answered with HTTP 400 and the
\* error message; no failure of the engine leaves the handler unhandled.
C24_FailuresAnswered400 ==
    (Answered /\ pc = "raised") =>
        /\ response[1].status = 400
        /\ response[1].body = [error |-> raised[2]]

(* -------------------------------- C25 --------------------------------- *)
\* the call has no negative lump sum and a rate that is not negative
NoNegativeAmounts == NonNegativeLumps /\ call.annual_interest_rate >= 0

ReplacedSubLen ==
    TotalLen([n \in 1 .. Len(Similarity.replacements) |->
                 Similarity.replacements[n][2]])

\* the text-side length of the replace segments of the result
ReplacedTextLen ==
    TotalLen([n \in 1 .. Len(Similarity.replacements) |->
                 Similarity.replacements[n][1]])

\* C26: the alignment partitions subtext: the matched and the inserted
\* characters and the subtext side of the replacements add up to
\* len(subtext); hence unmatched_char_count is the inserted characters plus
\* the subtext side of the replacements, and every inserted character
\* counts twice in dissimilarity_score.
C26_AlignmentPartitionsSubtext ==
    SimDone =>
        /\ Similarity.matched_char_count + Similarity.inserted_char_count
              + ReplacedSubLen = Len(ProcessedSub)
        /\ Similarity.matched_char_count = TotalLen(Similarity.matches)
        /\ Similarity.unmatched_char_count
              = Similarity.inserted_char_count + ReplacedSubLen
        /\ Similarity.replaced_char_count = ReplacedTextLen
        /\ Similarity.dissimilarity_score
              = 2 * Similarity.inserted_char_count + ReplacedSubLen
                + ReplacedTextLen + Similarity.gap_char_count

\* a comparison with matched, inserted and replaced characters at once
C26_Witness ==
    /\ SimDone
    /\ Similarity.matched_char_count > 0
    /\ Similarity.inserted_char_count > 0
    /\ ReplacedSubLen > 0

(* -------------------------------- C27 --------------------------------- *)
\* C27: dissimilarity_score is 0 only if subtext occurs as a contiguous
\* substring of text (the empty subtext included).
C27_ZeroScoreOnlyForSubstring ==
    (SimDone /\ Similarity.dissimilarity_score = 0)
        => IsSubstring(ProcessedSub, ProcessedText)

\* a zero score for a subtext of several characters inside a longer text
C27_Witness ==
    /\ SimDone
    /\ Similarity.dissimilarity_score = 0
    /\ Len(ProcessedSub) > 1
    /\ Len(ProcessedText) > Len(ProcessedSub)
    /\ IsSubstring(ProcessedSub, ProcessedText)

(* -------------------------------- C28 --------------------------------- *)
\* C28 as stated: in the schedule of a successful answer of /simulate the
\* opening_balance of the first row equals loan_amount and the
\* opening_balance of every later row equals the closing_balance of the row
\* before it.
C28_OpeningIsPreviousClosing ==
    (Answered /\ response[1].status = 200) =>
        LET rows == response[1].body.schedule IN
        \A i \in 1 .. Len(rows) :
            rows[i].opening_balance =
                IF i = 1 THEN request[1].loan_amount
                ELSE rows[i - 1].closing_balance

(* ------------- the legacy simulate_home_loan (homeloan.py) ------------- *)
\* The legacy function has the set-up, the clamp and the rows of
\* simulate_loan (ResolveEmi, Payment, Row), but its loop is
\* "while balance > 0" alone: no ceiling on the months and no check of the
\* EMI against the interest. It runs on the variables of simulate_loan.

\* the months of one call that the model follows
MaxHomeMonths == 12

\* the form of demos/loan_emi_simulator passes loan_amount, the rate and a
\* positive emi; lump sums, where given, are amounts that are not negative
HomeCalls ==
    {c \in [loan_amount : 0 .. MaxLoan, annual_interest_rate : Rates,
            emi : {Some(v) : v \in 1 .. MaxEmi},
            lump_sums : LumpArgs, target_months : {None}] :
        \A p \in NormaliseLumps(c.lump_sums) : FLe(FZero, p[2])}

\* df.iloc[-1] of a schedule without rows
EmptyFrame == <<"IndexError", "single positional indexer is out-of-bounds">>

HomeInit ==
    /\ call \in HomeCalls
    /\ pc = "call"
    /\ monthly_interest_rate = FZero
    /\ lump_sums = {}
    /\ emi = None
    /\ balance = FZero
    /\ month = 0
    /\ total_interest_paid = FZero
    /\ schedule = <<>>
    /\ ledger = <<>>
    /\ raised = None
    /\ returned = None
    /\ sim_call = None
    /\ sim_pc = "idle"
    /\ results = None
    /\ HttpIdle
    /\ LoggingUntouched

\* the set-up of the call and the choice of the EMI
HomeEnter ==
    /\ pc = "call"
    /\ LET r   == MonthlyRate(call.annual_interest_rate)
           P   == FromInt(call.loan_amount)
           res == ResolveEmi(call.emi, call.target_months, P, r)
       IN  /\ monthly_interest_rate' = r
           /\ balance' = P
           /\ lump_sums' = NormaliseLumps(call.lump_sums)
           /\ emi' = res.emi
           /\ raised' = res.raised
           /\ pc' = IF res.raised = None THEN "loop" ELSE "raised"
    /\ UNCHANGED <<call, month, total_interest_paid, schedule, ledger, returned>>
    /\ UNCHANGED <<simvars, httpvars, logvars>>

\* one iteration of "while balance > 0"; the model follows the loop for
\* MaxHomeMonths months
HomeMonthStep ==
    /\ pc = "loop"
    /\ FGt(balance, FZero)
    /\ month < MaxHomeMonths
    /\ month' = month + 1
    /\ \E interest \in {FMul(balance, monthly_interest_rate)} :
       \E pay \in {Payment(balance, emi, LumpGet(lump_sums, month + 1), interest)} :
       \E bal \in {FSub(balance, FAdd(pay.principal_payment, pay.lump_sum))} :
           /\ emi' = pay.emi
           /\ balance' = bal
           /\ total_interest_paid' = FAdd(total_interest_paid, interest)
           /\ schedule' = Append(schedule,
                             Row(month + 1, pay.emi, pay.lump_sum, interest,
                                 pay.principal_payment, bal))
           /\ ledger' = Append(ledger,
                           [emi |-> pay.emi, lump_sum |-> pay.lump_sum,
                            interest |-> interest,
                            principal_payment |-> pay.principal_payment,
                            balance |-> bal])
           /\ pc' = IF FLe(bal, FZero) THEN "report" ELSE "loop"
    /\ UNCHANGED <<call, monthly_interest_rate, lump_sums, raised, returned>>
    /\ UNCHANGED <<simvars, httpvars, logvars>>

\* the loop condition fails before the first month: nothing is owed
HomeExitLoop ==
    /\ pc = "loop"
    /\ ~FGt(balance, FZero)
    /\ pc' = "report"
    /\ UNCHANGED <<call, monthly_interest_rate, lump_sums, emi, balance, month,
                   total_interest_paid, schedule, ledger, raised, returned>>
    /\ UNCHANGED <<simvars, httpvars, logvars>>

\* the data frame is built, its last row summarised, and it is returned
HomeReturn ==
    /\ pc = "report"
    /\ IF schedule = <<>>
       THEN /\ raised' = EmptyFrame
            /\ returned' = None
            /\ pc' = "raised"
       ELSE /\ raised' = None
            /\ returned' = Some(schedule)
            /\ pc' = "done"
    /\ UNCHANGED <<call, monthly_interest_rate, lump_sums, emi, balance, month,
                   total_interest_paid, schedule, ledger>>
    /\ UNCHANGED <<simvars, httpvars, logvars>>

HomeNext == HomeEnter \/ HomeMonthStep \/ HomeExitLoop \/ HomeReturn

HomeSpec == HomeInit /\ [][HomeNext]_allvars

(* -------------------------------- C29 --------------------------------- *)
\* the loop is at a month from which what is owed cannot go down: the EMI
\* does not exceed the month's interest and no lump sum lies ahead
NeverRepays ==
    /\ pc = "loop"
    /\ FGt(balance, FZero)
    /\ FLe(emi, FMul(balance, monthly_interest_rate))
    /\ \A p \in lump_sums : p[1] <= month

\* such a month is followed only by such months, and the balance never goes
\* down: it never reaches 0 and the loop never ends
NeverRepaysIsClosed ==
    [][NeverRepays => (NeverRepays' /\ FLe(balance, balance'))]_allvars

\* the call still runs its loop after MaxHomeMonths months
StillRunning == pc = "loop" /\ month = MaxHomeMonths /\ FGt(balance, FZero)

\* MaxHomeMonths is past every schedule that ends: only a call that never
\* repays is followed that far
OnlyCallsThatNeverRepayRunOn == StillRunning => NeverRepays

\* C29 as stated: for every positive loan_amount, annual_interest_rate >= 0
\* and positive emi the legacy simulate_home_loan terminates: after finitely
\* many months the balance reaches 0 or below and the schedule is returned.
\* A call that terminates so never comes to a month from which what is owed
\* cannot go down again (NeverRepaysIsClosed).
C29_LegacyTerminates ==
    (call.loan_amount > 0 /\ call.emi # None /\ call.emi[1] > 0) => ~NeverRepays

(* ------------- configure_logger (utils/logger_config.py) --------------- *)
\* how many calls of configure_logger the model follows
MaxConfigureCalls == 3

\* how many handlers the host of the application (a test runner, a library
\* that calls logging.basicConfig) puts on the root logger at a time
MaxHostHandlers == 2

\* how many messages the application logs besides those of configure_logger
MaxMessages == 2

\* the numeric value of a logging level
LevelNo(level) ==
    CASE level = "NOTSET"  -> 0
      [] level = "INFO"    -> 20
      [] level = "WARNING" -> 30
      [] level = "ERROR"   -> 40

\* the levels the application logs at: logger.info and logger.error
MessageLevels == {"INFO", "ERROR"}

\* the level of a handler the host installs
HostLevels == {"NOTSET", "WARNING"}

\* Logger.getEffectiveLevel() of app_logger: its own level, or that of the
\* root logger (WARNING) while its own is not set
EffectiveLevel(own_level) == IF own_level = "NOTSET" THEN "WARNING" ELSE own_level

\* the handlers of the list that accept a message of the level
Accepting(handlers, level) ==
    {i \in 1 .. Len(handlers) : LevelNo(level) >= LevelNo(handlers[i].level)}

\* Logger.callHandlers for a message of app_logger: its own handlers, then
\* those of the root logger if it propagates; with no handler at all the
\* handler of last resort writes a message of level WARNING or above
CallHandlers(level, own, propagate, root) ==
    LET reached == IF propagate THEN own \o root ELSE own
    IN  IF reached = <<>>
        THEN IF LevelNo(level) >= LevelNo("WARNING") THEN 1 ELSE 0
        ELSE Cardinality(Accepting(reached, level))

\* how many handlers write a message of the level logged on app_logger
Deliveries(level, own_level, own, propagate, root) ==
    IF LevelNo(level) >= LevelNo(EffectiveLevel(own_level))
    THEN CallHandlers(level, own, propagate, root)
    ELSE 0

\* mutant: the handlers stay on the logger
RemoveHandlers_KeepsAll(handlers) == handlers

\* for h in logger.handlers[:]: logger.removeHandler(h)
RemoveHandlers(handlers) == SubSeq(handlers, 1, 0)

\* app_logger.addHandler(console_handler)
AddHandler(handlers, h) ==
    IF \E i \in 1 .. Len(handlers) : handlers[i] = h THEN handlers
    ELSE Append(handlers, h)

LogInit ==
    /\ LoggingUntouched
    /\ LoanIdle
    /\ sim_call = None
    /\ sim_pc = "idle"
    /\ results = None
    /\ HttpIdle

\* one call of configure_logger, from its first line to its return
ConfigureLogger ==
    /\ configure_calls < MaxConfigureCalls
    /\ root_handlers' = RemoveHandlers(root_handlers)
    /\ app_level' = "INFO"
    /\ app_propagate' = FALSE
    /\ handlers_created' = handlers_created + 1
    /\ app_handlers' = AddHandler(RemoveHandlers(app_handlers),
                                  [id |-> handlers_created + 1, level |-> "INFO"])
    /\ emitted' = Append(emitted,
                         Deliveries("INFO", app_level', app_handlers',
                                    app_propagate', root_handlers'))
    /\ configure_calls' = configure_calls + 1
    /\ UNCHANGED <<vars, simvars, httpvars>>

\* logger.info(...) or logger.error(...) of a module of the application
LogMessage ==
    /\ Len(emitted) - configure_calls < MaxMessages
    /\ \E level \in MessageLevels : emitted' =
           Append(emitted, Deliveries(level, app_level, app_handlers,
                                      app_propagate, root_handlers))
    /\ UNCHANGED <<root_handlers, app_handlers, app_propagate, app_level,
                   handlers_created, configure_calls>>
    /\ UNCHANGED <<vars, simvars, httpvars>>

\* the host puts a handler on the root logger: the existing root handlers
\* that configure_logger expects to find
HostAddsRootHandler ==
    /\ Len(root_handlers) < MaxHostHandlers
    /\ handlers_created < MaxConfigureCalls + MaxHostHandlers
    /\ \E level \in HostLevels :
           root_handlers' = Append(root_handlers,
                                   [id |-> handlers_created + 1, level |-> level])
    /\ handlers_created' = handlers_created + 1
    /\ UNCHANGED <<app_handlers, app_propagate, app_level, configure_calls,
                   emitted>>
    /\ UNCHANGED <<vars, simvars, httpvars>>

LogNext == ConfigureLogger \/ LogMessage \/ HostAddsRootHandler

LogSpec == LogInit /\ [][LogNext]_allvars

(* -------------------------------- C30 --------------------------------- *)
\* the logging state configure_logger is to leave behind
Configured ==
    /\ Len(app_handlers) = 1
    /\ app_propagate = FALSE
    /\ root_handlers = <<>>

\* C30: configure_logger is idempotent on the logging state: after any
\* number (>= 1) of sequential calls the logger 'app_logger' has exactly one
\* handler, does not propagate, and the root logger has no handlers, so each
\* message is emitted exactly once.
C30_ConfigureLoggerIdempotent ==
    [][/\ configure_calls' > configure_calls => Configured'
       /\ (Len(emitted') > Len(emitted) /\ configure_calls' >= 1)
              => emitted'[Len(emitted')] = 1]_allvars

\* a second or later call has returned, after the host had put handlers on
\* the root logger, and the last message was written once
C30_Witness ==
    /\ configure_calls >= 2
    /\ handlers_created > configure_calls
    /\ Configured
    /\ app_handlers[1].id = handlers_created
    /\ emitted # <<>> /\ emitted[Len(emitted)] = 1

====
